---- MODULE Spec2Model ----
\* A model of pbatch.Run (src/lib.go): a bounded-parallelism batch executor.
\* The main goroutine (the scheduling loop of Run) and one goroutine per
\* spawned item are the processes; every action below is one step of one of
\* them.  Go indices 0..n-1 are the model's 1..n.
EXTENDS Integers, Sequences, FiniteSets, TLC

\* ---------------------------------------------------------------- bounds
MaxItems == 3
MaxBatch == 3
MaxVal == 3

\* ------------------------------------------------------------- constants
STOP_ON_ERROR == TRUE
CONTINUE_ON_ERROR == FALSE

\* ---------------------------------------------------------------- values
\* A Go error value.  `at` is the identity of the allocation: the index of
\* the item whose invocation allocated it, 0 for one allocated by Run itself.
Nil == [kind |-> "nil", msg |-> "", at |-> 0]

\* errors.New / fmt.Errorf: a fresh *errorString carrying the message.
NewError(msg, at) == [kind |-> "errorString", msg |-> msg, at |-> at]

\* A Go slice as the caller sees it: the nil slice differs from an empty one.
NilSlice == [isNil |-> TRUE, elems |-> <<>>]
Slice(s) == [isNil |-> FALSE, elems |-> s]

\* The zero value of the result type R (string in the tests).
ZeroR == ""

Items == 1..MaxVal
Policies == {STOP_ON_ERROR, CONTINUE_ON_ERROR}

\* All sequences over S of length at most n.
SeqUpTo(S, n) == UNION {[1..k -> S] : k \in 0..n}

\* The caller-supplied operation, as TestRun_Error supplies it: item 3 fails
\* with "error on item 3", every other item n yields "Number: n".
process(n, at) ==
    IF n = 3
    THEN [result |-> ZeroR, err |-> NewError("error on item " \o ToString(n), at)]
    ELSE [result |-> "Number: " \o ToString(n), err |-> Nil]

\* Lines 123-126: the operation Process hands to Run.  It keeps the failure
\* of the caller's function and yields struct{}{}, the only value of its
\* type and so its zero value.
wrapper(n, at) == [result |-> ZeroR, err |-> process(n, at).err]

\* strings.Join(errStrings, sep) over the messages of errs.
RECURSIVE Join(_, _)
Join(errs, sep) ==
    IF errs = <<>> THEN ""
    ELSE IF Len(errs) = 1 THEN Head(errs).msg
    ELSE Head(errs).msg \o sep \o Join(Tail(errs), sep)

\* aggregateErrors: one plain error whose text joins the messages.
aggregateErrors(errs) == NewError("multiple errors: " \o Join(errs, "; "), 0)

\* The aggregate accessors the tests and the README use; their code is not
\* among the sources, so they follow the documented contract.
IsBatchError(e) == e.kind = "BatchError"
UnwrapBatchError(e) == IF IsBatchError(e) THEN e.errs ELSE <<e>>

\* ----------------------------------------------------------------- state
VARIABLES
    items,                \* the input slice
    batchSize,            \* capacity of the semaphore channel
    handleErrorStrategy,  \* STOP_ON_ERROR or CONTINUE_ON_ERROR
    semaphore,            \* number of tokens buffered in the semaphore channel
    wg,                   \* the WaitGroup counter
    results,              \* the result slice, one slot per item
    errChan,              \* the buffered error channel (capacity len(items))
    mu,                   \* 0 when unlocked, else the task holding the mutex
    allErrors,            \* failures collected under CONTINUE_ON_ERROR
    idx,                  \* the loop's current index (1-based)
    pc,                   \* position of the main goroutine
    stopErr,              \* the error received by the loop's poll
    tpc,                  \* position of each task goroutine
    tres,                 \* each task's local `result`
    terr,                 \* each task's local `err`
    ret,                  \* what Run returned: [results, err]
    spawned,              \* history: go statements executed per index
    invoked,              \* history: process calls per index
    observed,             \* history: the loop's poll has received a failure
    reports,              \* history: the failures tasks sent to errChan, in order
    epoch,                \* history: what had happened when each task was spawned
    run,                  \* which call of Run this is (1 or 2)
    prev,                 \* what the previous call returned, and its batchSize
    api,                  \* the entry point called: "Run" or "Process"
    perr                  \* what Process returned

vars == <<items, batchSize, handleErrorStrategy, semaphore, wg, results,
          errChan, mu, allErrors, idx, pc, stopErr, tpc, tres, terr, ret,
          spawned, invoked, observed, reports, epoch, run, prev, api, perr>>

inputs == <<items, handleErrorStrategy>>
history == <<spawned, invoked, observed, reports, epoch>>
caller == <<run, prev, api, perr>>

\* Line 53: the operation the tasks call, as the entry point passed it.
operation(n, at) == IF api = "Process" THEN wrapper(n, at) ELSE process(n, at)

N == Len(items)
Tasks == 1..N
NoRet == [results |-> NilSlice, err |-> Nil]
NoPrev == [results |-> NilSlice, err |-> Nil, batchSize |-> 0]

\* Lines 30-39: the state Run sets up before the loop.
Setup(its, b, strategy) ==
    /\ items = its
    /\ batchSize = b
    /\ handleErrorStrategy = strategy
    /\ semaphore = 0
    /\ wg = 0
    /\ results = [t \in 1..Len(its) |-> ZeroR]
    /\ errChan = <<>>
    /\ mu = 0
    /\ allErrors = <<>>
    /\ idx = 1
    /\ pc = "loop"
    /\ stopErr = Nil
    /\ tpc = [t \in 1..Len(its) |-> "none"]
    /\ tres = [t \in 1..Len(its) |-> ZeroR]
    /\ terr = [t \in 1..Len(its) |-> Nil]
    /\ ret = NoRet
    /\ spawned = [t \in 1..Len(its) |-> 0]
    /\ invoked = [t \in 1..Len(its) |-> 0]
    /\ observed = FALSE
    /\ reports = <<>>
    /\ epoch = [t \in 1..Len(its) |-> "none"]

Init ==
    \E its \in SeqUpTo(Items, MaxItems), b \in 0..MaxBatch, strategy \in Policies :
        /\ Setup(its, b, strategy)
        /\ run = 1
        /\ prev = NoPrev
        /\ api = "Run"
        /\ perr = Nil

\* ------------------------------------------------------ the main goroutine
\* MainAcquire with a limiter that never blocks (an unbounded channel).
MainAcquire_NoLimit ==
    /\ pc = "loop"
    /\ idx <= N
    /\ semaphore' = semaphore + 1
    /\ wg' = wg + 1
    /\ pc' = "spawn"
    /\ UNCHANGED <<inputs, batchSize, results, errChan, mu, allErrors, idx,
                   stopErr, tpc, tres, terr, ret, history, caller>>

\* MainAcquire that treats a batchSize of 0 as no limit.
MainAcquire_ZeroUnlimited ==
    /\ pc = "loop"
    /\ idx <= N
    /\ batchSize = 0 \/ semaphore < batchSize
    /\ semaphore' = semaphore + 1
    /\ wg' = wg + 1
    /\ pc' = "spawn"
    /\ UNCHANGED <<inputs, batchSize, results, errChan, mu, allErrors, idx,
                   stopErr, tpc, tres, terr, ret, history, caller>>

\* Lines 44-45: semaphore <- struct{}{} blocks while the channel is full;
\* then wg.Add(1).
MainAcquire ==
    /\ pc = "loop"
    /\ idx <= N
    /\ semaphore < batchSize
    /\ semaphore' = semaphore + 1
    /\ wg' = wg + 1
    /\ pc' = "spawn"
    /\ UNCHANGED <<inputs, batchSize, results, errChan, mu, allErrors, idx,
                   stopErr, tpc, tres, terr, ret, history, caller>>

\* What has happened by the time of a spawn: whether some task has already
\* sent a failure to errChan.
SpawnEpoch == IF reports # <<>> THEN "reported" ELSE "clean"

\* MainSpawn of a loop that walks the items from the last to the first.
MainSpawn_Reverse ==
    /\ pc = "spawn"
    /\ tpc' = [tpc EXCEPT ![N + 1 - idx] = "process"]
    /\ spawned' = [spawned EXCEPT ![N + 1 - idx] = @ + 1]
    /\ epoch' = [epoch EXCEPT ![N + 1 - idx] = SpawnEpoch]
    /\ IF handleErrorStrategy = STOP_ON_ERROR
       THEN pc' = "poll" /\ idx' = idx
       ELSE pc' = "loop" /\ idx' = idx + 1
    /\ UNCHANGED <<inputs, batchSize, semaphore, wg, results, errChan, mu,
                   allErrors, stopErr, tres, terr, ret, invoked, observed,
                   reports, caller>>

\* Lines 48, 75: the go statement for item idx.  Under CONTINUE_ON_ERROR the
\* iteration ends here; under STOP_ON_ERROR the poll follows.
MainSpawn ==
    /\ pc = "spawn"
    /\ tpc' = [tpc EXCEPT ![idx] = "process"]
    /\ spawned' = [spawned EXCEPT ![idx] = @ + 1]
    /\ epoch' = [epoch EXCEPT ![idx] = SpawnEpoch]
    /\ IF handleErrorStrategy = STOP_ON_ERROR
       THEN pc' = "poll" /\ idx' = idx
       ELSE pc' = "loop" /\ idx' = idx + 1
    /\ UNCHANGED <<inputs, batchSize, semaphore, wg, results, errChan, mu,
                   allErrors, stopErr, tres, terr, ret, invoked, observed,
                   reports, caller>>

\* MainPoll that takes the failure from errChan but goes on iterating.
MainPoll_KeepGoing ==
    /\ pc = "poll"
    /\ IF errChan # <<>>
       THEN /\ stopErr' = Head(errChan)
            /\ errChan' = Tail(errChan)
            /\ observed' = TRUE
       ELSE UNCHANGED <<stopErr, errChan, observed>>
    /\ pc' = "loop"
    /\ idx' = idx + 1
    /\ UNCHANGED <<inputs, batchSize, semaphore, wg, results, mu, allErrors,
                   tpc, tres, terr, ret, spawned, invoked, reports,
                   epoch, caller>>

\* Lines 78-86: the non-blocking receive from errChan after a spawn.
MainPoll ==
    /\ pc = "poll"
    /\ IF errChan # <<>>
       THEN /\ stopErr' = Head(errChan)
            /\ errChan' = Tail(errChan)
            /\ observed' = TRUE
            /\ pc' = "stop_wait"
            /\ idx' = idx
       ELSE /\ pc' = "loop"
            /\ idx' = idx + 1
            /\ UNCHANGED <<stopErr, errChan, observed>>
    /\ UNCHANGED <<inputs, batchSize, semaphore, wg, results, mu, allErrors,
                   tpc, tres, terr, ret, spawned, invoked, reports,
                   epoch, caller>>

\* MainStopWait that returns at once, without the wg.Wait() of line 82.
MainStopWait_NoWait ==
    /\ pc = "stop_wait"
    /\ ret' = [results |-> NilSlice, err |-> stopErr]
    /\ pc' = "done"
    /\ UNCHANGED <<inputs, batchSize, semaphore, wg, results, errChan, mu,
                   allErrors, idx, stopErr, tpc, tres, terr, history, caller>>

\* MainStopWait that hands back the result slice as it stands.
MainStopWait_PartialResults ==
    /\ pc = "stop_wait"
    /\ wg = 0
    /\ ret' = [results |-> Slice(results), err |-> stopErr]
    /\ pc' = "done"
    /\ UNCHANGED <<inputs, batchSize, semaphore, wg, results, errChan, mu,
                   allErrors, idx, stopErr, tpc, tres, terr, history, caller>>

\* Lines 82-83: wg.Wait() on the early-stop path, then return nil, err.
MainStopWait ==
    /\ pc = "stop_wait"
    /\ wg = 0
    /\ ret' = [results |-> NilSlice, err |-> stopErr]
    /\ pc' = "done"
    /\ UNCHANGED <<inputs, batchSize, semaphore, wg, results, errChan, mu,
                   allErrors, idx, stopErr, tpc, tres, terr, history, caller>>

\* Line 90: the loop has ended; wg.Wait() blocks until the counter is zero.
MainWait ==
    /\ pc = "loop"
    /\ idx > N
    /\ wg = 0
    /\ pc' = "final"
    /\ UNCHANGED <<inputs, batchSize, semaphore, wg, results, errChan, mu,
                   allErrors, idx, stopErr, tpc, tres, terr, ret, history,
                   caller>>

\* MainReturn that returns a nil slice for an empty input.
MainReturn_NilWhenEmpty ==
    /\ pc = "final"
    /\ IF handleErrorStrategy = STOP_ON_ERROR /\ errChan # <<>>
       THEN /\ ret' = [results |-> NilSlice, err |-> Head(errChan)]
            /\ errChan' = Tail(errChan)
       ELSE /\ ret' = IF handleErrorStrategy = CONTINUE_ON_ERROR /\ Len(allErrors) > 0
                      THEN [results |-> Slice(results), err |-> aggregateErrors(allErrors)]
                      ELSE [results |-> IF N = 0 THEN NilSlice ELSE Slice(results),
                            err |-> Nil]
            /\ errChan' = errChan
    /\ pc' = "done"
    /\ UNCHANGED <<inputs, batchSize, semaphore, wg, results, mu, allErrors,
                   idx, stopErr, tpc, tres, terr, history, caller>>

\* MainReturn whose final poll takes the failure sent last.
MainReturn_TakesLast ==
    /\ pc = "final"
    /\ IF handleErrorStrategy = STOP_ON_ERROR /\ errChan # <<>>
       THEN /\ ret' = [results |-> NilSlice, err |-> errChan[Len(errChan)]]
            /\ errChan' = SubSeq(errChan, 1, Len(errChan) - 1)
       ELSE /\ ret' = IF handleErrorStrategy = CONTINUE_ON_ERROR /\ Len(allErrors) > 0
                      THEN [results |-> Slice(results), err |-> aggregateErrors(allErrors)]
                      ELSE [results |-> Slice(results), err |-> Nil]
            /\ errChan' = errChan
    /\ pc' = "done"
    /\ UNCHANGED <<inputs, batchSize, semaphore, wg, results, mu, allErrors,
                   idx, stopErr, tpc, tres, terr, history, caller>>

\* MainReturn that reports the aggregate only for more than one failure.
MainReturn_OffByOne ==
    /\ pc = "final"
    /\ IF handleErrorStrategy = STOP_ON_ERROR /\ errChan # <<>>
       THEN /\ ret' = [results |-> NilSlice, err |-> Head(errChan)]
            /\ errChan' = Tail(errChan)
       ELSE /\ ret' = IF handleErrorStrategy = CONTINUE_ON_ERROR /\ Len(allErrors) > 1
                      THEN [results |-> Slice(results), err |-> aggregateErrors(allErrors)]
                      ELSE [results |-> Slice(results), err |-> Nil]
            /\ errChan' = errChan
    /\ pc' = "done"
    /\ UNCHANGED <<inputs, batchSize, semaphore, wg, results, mu, allErrors,
                   idx, stopErr, tpc, tres, terr, history, caller>>

\* MainReturn without the final poll of errChan (lines 93-99 left out).
MainReturn_NoFinalPoll ==
    /\ pc = "final"
    /\ ret' = IF handleErrorStrategy = CONTINUE_ON_ERROR /\ Len(allErrors) > 0
              THEN [results |-> Slice(results), err |-> aggregateErrors(allErrors)]
              ELSE [results |-> Slice(results), err |-> Nil]
    /\ pc' = "done"
    /\ UNCHANGED <<inputs, batchSize, semaphore, wg, results, errChan, mu,
                   allErrors, idx, stopErr, tpc, tres, terr, history, caller>>

\* MainReturn that discards the results when it reports the aggregate.
MainReturn_NilOnAggregate ==
    /\ pc = "final"
    /\ IF handleErrorStrategy = STOP_ON_ERROR /\ errChan # <<>>
       THEN /\ ret' = [results |-> NilSlice, err |-> Head(errChan)]
            /\ errChan' = Tail(errChan)
       ELSE /\ ret' = IF handleErrorStrategy = CONTINUE_ON_ERROR /\ Len(allErrors) > 0
                      THEN [results |-> NilSlice, err |-> aggregateErrors(allErrors)]
                      ELSE [results |-> Slice(results), err |-> Nil]
            /\ errChan' = errChan
    /\ pc' = "done"
    /\ UNCHANGED <<inputs, batchSize, semaphore, wg, results, mu, allErrors,
                   idx, stopErr, tpc, tres, terr, history, caller>>

\* Lines 93-106: the final poll of errChan under STOP_ON_ERROR, the
\* aggregate under CONTINUE_ON_ERROR, else the results and no error.
MainReturn ==
    /\ pc = "final"
    /\ IF handleErrorStrategy = STOP_ON_ERROR /\ errChan # <<>>
       THEN /\ ret' = [results |-> NilSlice, err |-> Head(errChan)]
            /\ errChan' = Tail(errChan)
       ELSE /\ ret' = IF handleErrorStrategy = CONTINUE_ON_ERROR /\ Len(allErrors) > 0
                      THEN [results |-> Slice(results), err |-> aggregateErrors(allErrors)]
                      ELSE [results |-> Slice(results), err |-> Nil]
            /\ errChan' = errChan
    /\ pc' = "done"
    /\ UNCHANGED <<inputs, batchSize, semaphore, wg, results, mu, allErrors,
                   idx, stopErr, tpc, tres, terr, history, caller>>

\* ------------------------------------------------------ the task goroutines
\* TaskProcess that calls the operation a second time when it fails.
TaskProcess_Retry(t) ==
    /\ tpc[t] = "process"
    /\ LET r == operation(items[t], t) IN
        /\ tres' = [tres EXCEPT ![t] = r.result]
        /\ terr' = [terr EXCEPT ![t] = r.err]
        /\ tpc' = [tpc EXCEPT ![t] =
                     IF r.err # Nil
                     THEN IF invoked[t] = 0 THEN "process"
                          ELSE IF handleErrorStrategy = STOP_ON_ERROR THEN "send" ELSE "lockErr"
                     ELSE "lockRes"]
    /\ invoked' = [invoked EXCEPT ![t] = @ + 1]
    /\ UNCHANGED <<inputs, batchSize, semaphore, wg, results, errChan, mu,
                   allErrors, idx, pc, stopErr, ret, spawned, observed,
                   reports, epoch, caller>>

\* Line 53 and the branches of 54-69: the call of process and where the
\* task goes next.
TaskProcess(t) ==
    /\ tpc[t] = "process"
    /\ LET r == operation(items[t], t) IN
        /\ tres' = [tres EXCEPT ![t] = r.result]
        /\ terr' = [terr EXCEPT ![t] = r.err]
        /\ tpc' = [tpc EXCEPT ![t] =
                     IF r.err # Nil
                     THEN IF handleErrorStrategy = STOP_ON_ERROR THEN "send" ELSE "lockErr"
                     ELSE "lockRes"]
    /\ invoked' = [invoked EXCEPT ![t] = @ + 1]
    /\ UNCHANGED <<inputs, batchSize, semaphore, wg, results, errChan, mu,
                   allErrors, idx, pc, stopErr, ret, spawned, observed,
                   reports, epoch, caller>>

\* TaskSend into an error channel of capacity 1.
TaskSend_SingleSlot(t) ==
    /\ tpc[t] = "send"
    /\ errChan' = IF Len(errChan) < 1 THEN Append(errChan, terr[t]) ELSE errChan
    /\ reports' = Append(reports, terr[t])
    /\ tpc' = [tpc EXCEPT ![t] = "release"]
    /\ UNCHANGED <<inputs, batchSize, semaphore, wg, results, mu, allErrors,
                   idx, pc, stopErr, tres, terr, ret, spawned, invoked,
                   observed, epoch, caller>>

\* TaskSend of a task whose early return skips the release of its slot.
TaskSend_NoRelease(t) ==
    /\ tpc[t] = "send"
    /\ errChan' = IF Len(errChan) < N THEN Append(errChan, terr[t]) ELSE errChan
    /\ reports' = Append(reports, terr[t])
    /\ tpc' = [tpc EXCEPT ![t] = "wgdone"]
    /\ UNCHANGED <<inputs, batchSize, semaphore, wg, results, mu, allErrors,
                   idx, pc, stopErr, tres, terr, ret, spawned, invoked,
                   observed, epoch, caller>>

\* Lines 57-61: the non-blocking send of err; dropped when the buffer
\* (capacity len(items)) is full.
TaskSend(t) ==
    /\ tpc[t] = "send"
    /\ errChan' = IF Len(errChan) < N THEN Append(errChan, terr[t]) ELSE errChan
    /\ reports' = Append(reports, terr[t])
    /\ tpc' = [tpc EXCEPT ![t] = "release"]
    /\ UNCHANGED <<inputs, batchSize, semaphore, wg, results, mu, allErrors,
                   idx, pc, stopErr, tres, terr, ret, spawned, invoked,
                   observed, epoch, caller>>

\* TaskLock with a lock that does not exclude other holders.
TaskLock_NoExclusion(t) ==
    /\ tpc[t] \in {"lockErr", "lockRes"}
    /\ mu' = t
    /\ tpc' = [tpc EXCEPT ![t] = IF tpc[t] = "lockErr" THEN "append" ELSE "store"]
    /\ UNCHANGED <<inputs, batchSize, semaphore, wg, results, errChan,
                   allErrors, idx, pc, stopErr, tres, terr, ret, history,
                   caller>>

\* Lines 65 and 72: mu.Lock() blocks while another task holds the mutex.
TaskLock(t) ==
    /\ tpc[t] \in {"lockErr", "lockRes"}
    /\ mu = 0
    /\ mu' = t
    /\ tpc' = [tpc EXCEPT ![t] = IF tpc[t] = "lockErr" THEN "append" ELSE "store"]
    /\ UNCHANGED <<inputs, batchSize, semaphore, wg, results, errChan,
                   allErrors, idx, pc, stopErr, tres, terr, ret, history,
                   caller>>

\* Lines 66-67: append the failure, then mu.Unlock().
TaskAppend(t) ==
    /\ tpc[t] = "append"
    /\ allErrors' = Append(allErrors, terr[t])
    /\ mu' = 0
    /\ tpc' = [tpc EXCEPT ![t] = "release"]
    /\ UNCHANGED <<inputs, batchSize, semaphore, wg, results, errChan, idx,
                   pc, stopErr, tres, terr, ret, history, caller>>

\* TaskStore whose closure reads the loop's own index variable instead of
\* its parameter i.
TaskStore_LoopVar(t) ==
    /\ tpc[t] = "store"
    /\ results' = [results EXCEPT ![IF idx > N THEN N ELSE idx] = tres[t]]
    /\ mu' = 0
    /\ tpc' = [tpc EXCEPT ![t] = "release"]
    /\ UNCHANGED <<inputs, batchSize, semaphore, wg, errChan, allErrors, idx,
                   pc, stopErr, tres, terr, ret, history, caller>>

\* Lines 73-74: results[i] = result, then mu.Unlock().
TaskStore(t) ==
    /\ tpc[t] = "store"
    /\ results' = [results EXCEPT ![t] = tres[t]]
    /\ mu' = 0
    /\ tpc' = [tpc EXCEPT ![t] = "release"]
    /\ UNCHANGED <<inputs, batchSize, semaphore, wg, errChan, allErrors, idx,
                   pc, stopErr, tres, terr, ret, history, caller>>

\* Line 50: the deferred <-semaphore, run first on exit.
TaskRelease(t) ==
    /\ tpc[t] = "release"
    /\ semaphore > 0
    /\ semaphore' = semaphore - 1
    /\ tpc' = [tpc EXCEPT ![t] = "wgdone"]
    /\ UNCHANGED <<inputs, batchSize, wg, results, errChan, mu, allErrors,
                   idx, pc, stopErr, tres, terr, ret, history, caller>>

\* TaskDone of a task that exits without calling wg.Done().
TaskDone_NoDone(t) ==
    /\ tpc[t] = "wgdone"
    /\ tpc' = [tpc EXCEPT ![t] = "finished"]
    /\ UNCHANGED <<inputs, batchSize, semaphore, wg, results, errChan, mu,
                   allErrors, idx, pc, stopErr, tres, terr, ret, history,
                   caller>>

\* Line 49: the deferred wg.Done(), run last on exit.
TaskDone(t) ==
    /\ tpc[t] = "wgdone"
    /\ wg' = wg - 1
    /\ tpc' = [tpc EXCEPT ![t] = "finished"]
    /\ UNCHANGED <<inputs, batchSize, semaphore, results, errChan, mu,
                   allErrors, idx, pc, stopErr, tres, terr, ret, history,
                   caller>>

Next ==
    \/ MainAcquire
    \/ MainSpawn
    \/ MainPoll
    \/ MainStopWait
    \/ MainWait
    \/ MainReturn
    \/ \E t \in Tasks : TaskProcess(t)
    \/ \E t \in Tasks : TaskSend(t)
    \/ \E t \in Tasks : TaskLock(t)
    \/ \E t \in Tasks : TaskAppend(t)
    \/ \E t \in Tasks : TaskStore(t)
    \/ \E t \in Tasks : TaskRelease(t)
    \/ \E t \in Tasks : TaskDone(t)

Spec == Init /\ [][Next]_vars

\* The Go scheduler runs every runnable goroutine eventually: a step that
\* stays possible is taken.  Whether a run returns depends on an item only
\* through its failing or not, so the items are drawn from one that
\* succeeds and the one that fails.
OutcomeItems == {2, 3}

InitFair ==
    \E its \in SeqUpTo(OutcomeItems, MaxItems), b \in 0..MaxBatch, strategy \in Policies :
        /\ Setup(its, b, strategy)
        /\ run = 1
        /\ prev = NoPrev
        /\ api = "Run"
        /\ perr = Nil

SpecFair == InitFair /\ [][Next]_vars /\ WF_vars(Next)

\* ------------------------------------------------------------ a second call
\* The caller of Run, having run the batch with batchSize 1, runs the same
\* items, operation and policy again with a batchSize of at least
\* len(items); lines 30-39 set the new call's state up afresh.
CallAgain ==
    /\ pc = "done"
    /\ run = 1
    /\ batchSize = 1
    /\ \E b \in {c \in 1..MaxBatch : c >= N} : batchSize' = b
    /\ prev' = [results |-> ret.results, err |-> ret.err, batchSize |-> batchSize]
    /\ run' = 2
    /\ semaphore' = 0
    /\ wg' = 0
    /\ results' = [t \in Tasks |-> ZeroR]
    /\ errChan' = <<>>
    /\ mu' = 0
    /\ allErrors' = <<>>
    /\ idx' = 1
    /\ pc' = "loop"
    /\ stopErr' = Nil
    /\ tpc' = [t \in Tasks |-> "none"]
    /\ tres' = [t \in Tasks |-> ZeroR]
    /\ terr' = [t \in Tasks |-> Nil]
    /\ ret' = NoRet
    /\ spawned' = [t \in Tasks |-> 0]
    /\ invoked' = [t \in Tasks |-> 0]
    /\ observed' = FALSE
    /\ reports' = <<>>
    /\ epoch' = [t \in Tasks |-> "none"]
    /\ UNCHANGED <<inputs, api, perr>>

NextTwice ==
    \/ MainAcquire
    \/ MainSpawn
    \/ MainPoll
    \/ MainStopWait
    \/ MainWait
    \/ MainReturn
    \/ \E t \in Tasks : TaskProcess(t)
    \/ \E t \in Tasks : TaskSend(t)
    \/ \E t \in Tasks : TaskLock(t)
    \/ \E t \in Tasks : TaskAppend(t)
    \/ \E t \in Tasks : TaskStore(t)
    \/ \E t \in Tasks : TaskRelease(t)
    \/ \E t \in Tasks : TaskDone(t)
    \/ CallAgain

SpecTwice == Init /\ [][NextTwice]_vars

\* ------------------------------------------------------------------ Process
\* Line 123: Process calls Run with STOP_ON_ERROR and the wrapped operation.
InitProcess ==
    \E its \in SeqUpTo(Items, MaxItems), b \in 0..MaxBatch :
        /\ Setup(its, b, STOP_ON_ERROR)
        /\ run = 1
        /\ prev = NoPrev
        /\ api = "Process"
        /\ perr = Nil

\* ProcessReturn that ignores the error Run returned.
ProcessReturn_DropsError ==
    /\ pc = "done"
    /\ api = "Process"
    /\ perr' = Nil
    /\ pc' = "returned"
    /\ UNCHANGED <<inputs, batchSize, semaphore, wg, results, errChan, mu,
                   allErrors, idx, stopErr, tpc, tres, terr, ret, history,
                   run, prev, api>>

\* Lines 123-127: Run has returned; Process drops the results and returns
\* the error.
ProcessReturn ==
    /\ pc = "done"
    /\ api = "Process"
    /\ perr' = ret.err
    /\ pc' = "returned"
    /\ UNCHANGED <<inputs, batchSize, semaphore, wg, results, errChan, mu,
                   allErrors, idx, stopErr, tpc, tres, terr, ret, history,
                   run, prev, api>>

\* The steps of a call of Process.  The policy being STOP_ON_ERROR, the
\* append to allErrors (lines 65-68) is never reached.
NextProcess ==
    \/ MainAcquire
    \/ MainSpawn
    \/ MainPoll
    \/ MainStopWait
    \/ MainWait
    \/ MainReturn
    \/ \E t \in Tasks : TaskProcess(t)
    \/ \E t \in Tasks : TaskSend(t)
    \/ \E t \in Tasks : TaskLock(t)
    \/ \E t \in Tasks : TaskStore(t)
    \/ \E t \in Tasks : TaskRelease(t)
    \/ \E t \in Tasks : TaskDone(t)
    \/ ProcessReturn

SpecProcess == InitProcess /\ [][NextProcess]_vars

\* ------------------------------------------------------------ vocabulary
Finished == pc = "done"

\* Tasks that hold a limiter slot: spawned and not yet past line 50.
Holding == {t \in Tasks : tpc[t] \in {"process", "send", "lockErr", "lockRes",
                                       "append", "store", "release"}}

\* Tasks inside the call of the processing operation.
InProcess == {t \in Tasks : tpc[t] = "process"}

\* What the operation yields for the item at index t.
Outcome(t) == process(items[t], t)
Failing == {t \in Tasks : Outcome(t).err # Nil}

\* The failures the operation has returned so far in this run.
Produced == {terr[t] : t \in {u \in Tasks : invoked[u] > 0 /\ terr[u] # Nil}}

\* The results an all-in-order run computes: the output where the item
\* succeeds, the zero value where it fails.
Expected == [t \in Tasks |-> IF t \in Failing THEN ZeroR ELSE Outcome(t).result]

\* Tasks that have released their slot and not yet called wg.Done().
Released == {t \in Tasks : tpc[t] = "wgdone"}

\* The slot the loop has acquired for a task it has not yet spawned.
Admitting == IF pc = "spawn" THEN 1 ELSE 0

\* Tasks that have gone through the send of their failure to errChan.
Senders == {t \in Tasks : terr[t] # Nil /\ tpc[t] \in {"release", "wgdone", "finished"}}

\* Run has received a failure from errChan, in the loop or at the end.
Taken == observed \/ (pc \in {"done", "returned"} /\ ret.err # Nil)

\* Tasks inside a write to the result slice or to allErrors.
Writing == {t \in Tasks : tpc[t] \in {"append", "store"}}

\* The indices for which a task has been spawned.
Spawned == {t \in Tasks : spawned[t] > 0}

\* Tasks spawned after some task had already sent a failure to errChan.
Late == {t \in Tasks : epoch[t] = "reported"}

\* The lowest index whose item fails.
FirstFailing == CHOOSE k \in Failing : \A j \in Failing : k <= j

\* ------------------------------------------------------------------ claims
\* C1: with batchSize >= 1 the tasks admitted and not yet released, and so
\* the invocations of the operation in progress, never exceed batchSize.
C1_AtMostBatchSizeInFlight ==
    batchSize >= 1 =>
        /\ Cardinality(Holding) <= batchSize
        /\ Cardinality(InProcess) <= batchSize

\* C1 witness: the limiter is full, with more items waiting to be admitted.
C1_Witness ==
    /\ batchSize >= 2
    /\ Cardinality(Holding) = batchSize
    /\ Cardinality(InProcess) = batchSize
    /\ pc = "loop"
    /\ idx <= N

\* C2: with batchSize >= 1, under either policy, when the operation succeeds
\* on every item Run returns no error and the outputs in input order.
C2_AllSucceedInOrder ==
    (Finished /\ batchSize >= 1 /\ Failing = {}) =>
        /\ ret.err = Nil
        /\ ~ret.results.isNil
        /\ Len(ret.results.elems) = N
        /\ \A t \in Tasks : ret.results.elems[t] = Outcome(t).result

\* C2 witness: a run of several succeeding items, several at once, returned.
C2_Witness ==
    /\ Finished
    /\ Failing = {}
    /\ N >= 3
    /\ batchSize >= 2
    /\ items[1] # items[N]

\* C3: under STOP_ON_ERROR with batchSize >= 1, when some invocation failed,
\* Run returns one of the failures the operation returned and a nil result.
C3_StopReturnsAFailure ==
    (Finished /\ handleErrorStrategy = STOP_ON_ERROR /\ batchSize >= 1
        /\ Produced # {}) =>
        /\ ret.err # Nil
        /\ ret.err \in Produced
        /\ ret.results = NilSlice

\* C3 witness: a run that returned after a failure while other items had
\* already stored their results.
C3_Witness ==
    /\ Finished
    /\ handleErrorStrategy = STOP_ON_ERROR
    /\ Produced # {}
    /\ \E t \in Tasks : results[t] # ZeroR

\* C4: under CONTINUE_ON_ERROR with batchSize >= 1, Run returns len(items)
\* results: the output at succeeding indices, the zero value at failing ones.
C4_ContinueResults ==
    (Finished /\ handleErrorStrategy = CONTINUE_ON_ERROR /\ batchSize >= 1) =>
        /\ ~ret.results.isNil
        /\ Len(ret.results.elems) = N
        /\ \A t \in Tasks : ret.results.elems[t] = Expected[t]

\* C4 witness: a returned run with both failing and succeeding items.
C4_Witness ==
    /\ Finished
    /\ handleErrorStrategy = CONTINUE_ON_ERROR
    /\ batchSize >= 1
    /\ Failing # {}
    /\ Failing # Tasks

\* C5: under CONTINUE_ON_ERROR with failures, the returned error is an
\* aggregate whose unwrapping yields exactly the failures of the failing
\* items, one for each.
C5_AggregateUnwrapsToFailures ==
    (Finished /\ handleErrorStrategy = CONTINUE_ON_ERROR /\ batchSize >= 1
        /\ Failing # {}) =>
        LET unwrapped == UnwrapBatchError(ret.err) IN
        /\ IsBatchError(ret.err)
        /\ Len(unwrapped) = Cardinality(Failing)
        /\ \A t \in Failing :
              Cardinality({k \in 1..Len(unwrapped) : unwrapped[k] = Outcome(t).err}) = 1

\* C6: under CONTINUE_ON_ERROR Run returns an error exactly when some
\* invocation failed; with no failure the collection is empty at the join.
C6_ErrorIffFailure ==
    (handleErrorStrategy = CONTINUE_ON_ERROR /\ batchSize >= 1) =>
        /\ Finished => (ret.err # Nil <=> Produced # {})
        /\ (pc \in {"final", "done"} /\ Produced = {}) => allErrors = <<>>

\* C6 witness: a returned run in which a single item failed.
C6_Witness ==
    /\ Finished
    /\ handleErrorStrategy = CONTINUE_ON_ERROR
    /\ batchSize >= 1
    /\ Cardinality(Failing) = 1
    /\ N >= 2
    /\ ret.err # Nil

\* C7: on both exit paths Run has returned only when every spawned task has
\* finished, nothing left to write or report, the mutex free.
C7_ReturnOnlyAfterJoin ==
    Finished =>
        /\ \A t \in Tasks : spawned[t] > 0 => tpc[t] = "finished"
        /\ wg = 0
        /\ mu = 0

\* C7 witness: the early stop returned after two or more tasks had run.
C7_Witness ==
    /\ Finished
    /\ observed
    /\ Cardinality({t \in Tasks : tpc[t] = "finished"}) >= 2

\* C8: at most one task per index and one invocation per item; a returned
\* run has invoked every spawned task; under CONTINUE_ON_ERROR a returned
\* run has processed every item exactly once.
C8_OncePerItem ==
    \A t \in Tasks :
        /\ spawned[t] <= 1
        /\ invoked[t] <= spawned[t]
        /\ Finished => invoked[t] = spawned[t]
        /\ (Finished /\ handleErrorStrategy = CONTINUE_ON_ERROR) => invoked[t] = 1

\* C8 witness: a returned CONTINUE_ON_ERROR run over three or more items,
\* some of them failing.
C8_Witness ==
    /\ Finished
    /\ handleErrorStrategy = CONTINUE_ON_ERROR
    /\ N >= 3
    /\ Failing # {}
    /\ \A t \in Tasks : invoked[t] = 1

\* C9: under STOP_ON_ERROR, from the step at which the loop's poll receives
\* a failure on, no task is spawned, and Run returns only once every task
\* spawned before has finished.
C9_NoSpawnAfterObserved ==
    [][observed =>
         /\ spawned' = spawned
         /\ Finished' => \A t \in Tasks : spawned[t] > 0 => tpc'[t] = "finished"]_vars

\* C9 witness: the loop stopped early, leaving items unscheduled, while a
\* task spawned before the stop is still running.
C9_Witness ==
    /\ observed
    /\ pc = "stop_wait"
    /\ \E t \in Tasks : spawned[t] = 0
    /\ \E t \in Tasks : tpc[t] = "process"

\* C10: for the same items, operation and policy, the run with batchSize 1
\* and the run with batchSize >= len(items) return the same result sequence
\* and agree on whether the error is nil.
C10_SameContentAcrossBatchSizes ==
    (Finished /\ run = 2 /\ prev.batchSize = 1 /\ batchSize >= N) =>
        /\ ret.results = prev.results
        /\ (ret.err = Nil) <=> (prev.err = Nil)

\* C10 witness: both runs have returned, over items some of which fail and
\* some of which succeed, the second with every item admitted at once.
C10_Witness ==
    /\ Finished
    /\ run = 2
    /\ prev.batchSize = 1
    /\ N >= 2
    /\ batchSize >= N
    /\ Failing # {}
    /\ Failing # Tasks

\* C11: with batchSize >= 1, under either policy, whether items succeed or
\* fail, every fairly scheduled execution of Run returns.
C11_RunReturns == (batchSize >= 1) ~> Finished

\* C11 witness: a run that had to wait for limiter slots, with failing and
\* succeeding items, has returned.
C11_Witness ==
    /\ Finished
    /\ batchSize = 1
    /\ N >= 3
    /\ Failing # {}
    /\ Failing # Tasks
    /\ \A t \in Tasks : tpc[t] = "finished"

\* C12: Process always runs under STOP_ON_ERROR and returns exactly the
\* error its call of Run returned: nil when no processed item failed, else
\* one failure produced by the caller's function, never an aggregate; the
\* limiter and the join behave as in Run.
C12_ProcessIsRunWithStop ==
    api = "Process" =>
        /\ handleErrorStrategy = STOP_ON_ERROR
        /\ allErrors = <<>>
        /\ batchSize >= 1 => Cardinality(Holding) <= batchSize
        /\ pc = "returned" =>
              /\ perr = ret.err
              /\ perr = Nil <=> Produced = {}
              /\ perr # Nil => (perr \in Produced /\ ~IsBatchError(perr) /\ perr.at \in Tasks)
              /\ \A t \in Tasks : spawned[t] > 0 => tpc[t] = "finished"
              /\ wg = 0

\* C12 witness: Process has returned a failure after other items succeeded.
C12_Witness ==
    /\ api = "Process"
    /\ pc = "returned"
    /\ perr # Nil
    /\ N >= 2
    /\ \E t \in Tasks : tpc[t] = "finished" /\ terr[t] = Nil /\ invoked[t] = 1

\* C13: for an empty input, batchSize >= 1 and either policy, Run admits and
\* spawns nothing, no failure is reported, and it returns an empty, non-nil
\* result sequence and no error.
C13_EmptyInput ==
    (N = 0 /\ batchSize >= 1) =>
        /\ pc \in {"loop", "final", "done"}
        /\ semaphore = 0
        /\ wg = 0
        /\ spawned = <<>>
        /\ invoked = <<>>
        /\ reports = <<>>
        /\ allErrors = <<>>
        /\ Finished => ret = [results |-> Slice(<<>>), err |-> Nil]

\* C13 witness: Run has returned for an empty input under STOP_ON_ERROR.
C13_Witness ==
    /\ N = 0
    /\ batchSize >= 1
    /\ handleErrorStrategy = STOP_ON_ERROR
    /\ Finished

\* C14: under STOP_ON_ERROR the error Run returns is the failure that was
\* sent first; a failure sent after another one is never the one returned.
C14_FirstReportedIsReturned ==
    (Finished /\ handleErrorStrategy = STOP_ON_ERROR /\ reports # <<>>) =>
        /\ ret.err = reports[1]
        /\ \A k \in 2..Len(reports) : ret.err # reports[k]

\* C14 witness: Run has returned after two or more tasks sent a failure.
C14_Witness ==
    /\ Finished
    /\ handleErrorStrategy = STOP_ON_ERROR
    /\ Len(reports) >= 2

\* C15 as stated: under STOP_ON_ERROR the failure holder never holds more
\* than one failure.
C15_SingleSlotHolder ==
    handleErrorStrategy = STOP_ON_ERROR => Len(errChan) <= 1

\* C15 amended: under STOP_ON_ERROR the holder is a queue of capacity
\* len(items): it holds at most len(items) failures, every failure a task
\* sends is queued in the order sent and none is dropped, and Run takes at
\* most one of them, the first.
C15_HolderQueuesEveryFailure ==
    handleErrorStrategy = STOP_ON_ERROR =>
        /\ Len(errChan) <= N
        /\ Len(reports) = Cardinality(Senders)
        /\ errChan = IF Taken THEN Tail(reports) ELSE reports

\* C15 witness: the holder holds two failures at once.
C15_Witness ==
    /\ handleErrorStrategy = STOP_ON_ERROR
    /\ Len(errChan) >= 2

\* C16: every slot in the limiter belongs to one task that has not yet left
\* (or to the task about to be spawned), on the success and the failure path
\* alike; a task releases before wg.Done counts it as finished; a task in
\* the operation holds a slot; when Run has returned the limiter is empty.
C16_SlotReleasedOnceOnExit ==
    /\ semaphore = Cardinality(Holding) + Admitting
    /\ wg = Cardinality(Holding) + Cardinality(Released) + Admitting
    /\ InProcess # {} => semaphore >= Cardinality(InProcess)
    /\ Finished => semaphore = 0

\* C16 witness: a failed task has released its slot and is not yet counted
\* as finished, while a successful one has already left.
C16_Witness ==
    /\ \E t \in Tasks : tpc[t] = "wgdone" /\ terr[t] # Nil
    /\ \E t \in Tasks : tpc[t] = "finished" /\ terr[t] = Nil /\ invoked[t] = 1

\* C17: slot i changes at most once, only in the store step of task i, only
\* when item i succeeded and only to its output; no two tasks are inside a
\* write to the results or to the failure collection at once.
C17_SingleWriterExclusiveWrites ==
    /\ [](Cardinality(Writing) <= 1 /\ (mu # 0 <=> Writing = {mu}))
    /\ [][\A t \in Tasks :
             results'[t] # results[t] =>
                 /\ tpc[t] = "store" /\ tpc'[t] = "release"
                 /\ mu = t
                 /\ t \notin Failing
                 /\ results[t] = ZeroR
                 /\ results'[t] = Outcome(t).result
                 /\ \A u \in Tasks \ {t} : results'[u] = results[u]]_vars

\* C17 witness: one task is inside its write to the results while another
\* waits for the mutex and a third has already written.
C17_Witness ==
    \E t, u, v \in Tasks :
        /\ tpc[t] = "store"
        /\ tpc[u] \in {"lockErr", "lockRes"}
        /\ results[v] # ZeroR

\* C18: the indices spawned always form a prefix 1..k of the input, under
\* both policies; a returned CONTINUE_ON_ERROR run has spawned them all.
C18_SpawnedIsPrefix ==
    /\ Spawned = 1..Cardinality(Spawned)
    /\ \A t \in Tasks : tpc[t] # "none" <=> t \in Spawned
    /\ (Finished /\ handleErrorStrategy = CONTINUE_ON_ERROR /\ batchSize >= 1) => Spawned = Tasks

\* C18 witness: an early stop has returned with a proper, non-empty prefix
\* spawned and the rest never scheduled.
C18_Witness ==
    /\ Finished
    /\ observed
    /\ Cardinality(Spawned) = 2
    /\ N >= 3

\* C19: the early stop is best effort.  Tasks are spawned after a failure
\* was already reported (the witness), only while the loop has not yet
\* received a failure, and Run returns only when such a task has run its
\* operation and finished.
C19_LateTasksRunToCompletion ==
    (handleErrorStrategy = STOP_ON_ERROR) =>
        \A t \in Late :
            /\ spawned[t] = 1
            /\ reports # <<>>
            /\ Finished => (invoked[t] = 1 /\ tpc[t] = "finished")

\* C19 witness: with batchSize >= 2, a task admitted after another item's
\* failure was reported has run to completion and stored its result.
C19_Witness ==
    /\ handleErrorStrategy = STOP_ON_ERROR
    /\ batchSize >= 2
    /\ Finished
    /\ \E t \in Late : tpc[t] = "finished" /\ invoked[t] = 1 /\ results[t] # ZeroR

\* C20: under STOP_ON_ERROR, after the first failure is in errChan the loop
\* spawns at most one more task; with batchSize 1 the error returned is the
\* failure of the lowest failing index k and nothing above k+1 is processed.
C20_AtMostOneSpawnAfterReport ==
    (handleErrorStrategy = STOP_ON_ERROR /\ batchSize >= 1) =>
        /\ Cardinality(Late) <= 1
        /\ (batchSize = 1 /\ Failing # {}) =>
              /\ \A t \in Tasks : t > FirstFailing + 1 => (spawned[t] = 0 /\ invoked[t] = 0)
              /\ Finished => ret.err = Outcome(FirstFailing).err

\* C20 witness: with batchSize 1 the first item failed, the second was still
\* spawned and processed, the third never was, and Run has returned.
C20_Witness ==
    /\ handleErrorStrategy = STOP_ON_ERROR
    /\ batchSize = 1
    /\ N >= 3
    /\ Finished
    /\ Failing # {}
    /\ FirstFailing = 1
    /\ Late = {2}
    /\ invoked[2] = 1
    /\ spawned[3] = 0

\* C21: with batchSize 0 and at least one item, under either policy, Run is
\* stuck at the first semaphore send: nothing is spawned or invoked, no step
\* is possible and Run has not returned; with batchSize 0 and no items Run
\* returns, and returns the empty results and no error.
C21_ZeroBatchSizeBlocks ==
    /\ []((batchSize = 0 /\ N >= 1) =>
            /\ pc = "loop" /\ idx = 1
            /\ semaphore = 0 /\ wg = 0
            /\ \A t \in Tasks : spawned[t] = 0 /\ invoked[t] = 0 /\ tpc[t] = "none"
            /\ ~Finished
            /\ ~ENABLED Next)
    /\ []((batchSize = 0 /\ N = 0 /\ Finished) =>
            ret = [results |-> Slice(<<>>), err |-> Nil])
    /\ (batchSize = 0 /\ N = 0) ~> Finished

\* C21 witness: Run called with batchSize 0 and two or more items sits at
\* the first acquisition with no step possible.
C21_Witness ==
    /\ batchSize = 0
    /\ N >= 2
    /\ pc = "loop"
    /\ idx = 1
    /\ ~ENABLED Next

====
